---- MODULE Spec2Model ----
(***************************************************************************)
(* Model of the ProductionDataViewer component                             *)
(* (src/production_data_viewer.tsx): the parser parseData, the edit and    *)
(* file handlers, and the asynchronous AI repair cycle                     *)
(* handleAICorrection / correctDataWithGemini.                             *)
(*                                                                         *)
(* Texts are sequences of one-character strings.  JavaScript values are    *)
(* records with the fields t (type tag), n (number / boolean), s (string   *)
(* characters), items (array elements) and props (object properties, in    *)
(* the order Object.keys reports them).                                    *)
(***************************************************************************)
EXTENDS Integers, Sequences, FiniteSets, TLC

(***************************************************************************)
(* Bounds of the model.                                                    *)
(***************************************************************************)
\* repair calls a behaviour may start
MaxCalls == 2
\* Rows kept by parseData.  MAX_ROWS_DISPLAY is 1000 in the source; the
\* model scales it so that truncation happens on short texts.
MAX_ROWS_DISPLAY == 2
\* setTimeout(() => controller.abort(), 30000): the 30 s deadline counted
\* in clock ticks
DeadlineTicks == 2

(***************************************************************************)
(* Program constants.                                                      *)
(***************************************************************************)
\* validateApiKey: key.trim().length > 20
MinKeyLen == 20

(***************************************************************************)
(* Characters and strings.                                                 *)
(***************************************************************************)
TAB == "\t"
NL == "\n"
QUOTE == "\""
\* the grave accent of a markdown fence (the character has no TLA+ literal)
FENCE == "GRAVE"

Digits == <<"0", "1", "2", "3", "4", "5", "6", "7", "8", "9">>

IsDigit(c) == \E d \in 1..10 : Digits[d] = c

DigitVal(c) == (CHOOSE d \in 1..10 : Digits[d] = c) - 1

\* String.prototype.trim and the line.trim() tests: white space characters
IsSpace(c) == c \in {" ", TAB, NL, "\r"}

LowerLetters == {"a", "b", "c", "d", "e", "f", "g", "h", "i", "j", "k", "l", "m",
                 "n", "o", "p", "q", "r", "s", "t", "u", "v", "w", "x", "y", "z"}

UpperLetters == {"A", "B", "C", "D", "E", "F", "G", "H", "I", "J", "K", "L", "M",
                 "N", "O", "P", "Q", "R", "S", "T", "U", "V", "W", "X", "Y", "Z"}

\* \w of the regular expressions
IsWordChar(c) == c \in LowerLetters \/ c \in UpperLetters \/ IsDigit(c) \/ c = "_"

\* the letters of "script" folded to lower case (the i flag of sanitizeInput)
Lower(c) == CASE c = "S" -> "s" [] c = "C" -> "c" [] c = "R" -> "r"
              [] c = "I" -> "i" [] c = "P" -> "p" [] c = "T" -> "t" [] OTHER -> c

Sub(s, i, j) == IF i > j THEN <<>> ELSE SubSeq(s, i, j)

\* F(v), with v evaluated once (a const binding of the source)
Eval(arg, F(_)) == CHOOSE r \in {F(x) : x \in {arg}} : TRUE

\* s.trim()
Trim(s) ==
    LET idx == {i \in 1..Len(s) : ~IsSpace(s[i])}
    IN  IF idx = {} THEN <<>>
        ELSE Sub(s, CHOOSE i \in idx : \A j \in idx : i <= j,
                    CHOOSE i \in idx : \A j \in idx : i >= j)

\* s.startsWith(p)
StartsWith(s, p) == Len(s) >= Len(p) /\ Sub(s, 1, Len(p)) = p

\* p occurs in s at position i
MatchAt(s, i, p) == i >= 1 /\ i + Len(p) - 1 <= Len(s) /\ Sub(s, i, i + Len(p) - 1) = p

RECURSIVE NatToStr(_)
\* Number.prototype.toString for a natural number
NatToStr(n) == IF n < 10 THEN <<Digits[n + 1]>> ELSE NatToStr(n \div 10) \o <<Digits[(n % 10) + 1]>>

RECURSIVE StrToNat(_)
\* value of a string of digits
StrToNat(s) == IF s = <<>> THEN 0 ELSE 10 * StrToNat(Sub(s, 1, Len(s) - 1)) + DigitVal(s[Len(s)])


(***************************************************************************)
(* JavaScript values.                                                      *)
(***************************************************************************)
JNull == [s |-> <<>>, n |-> 0, items |-> <<>>, props |-> <<>>, t |-> "null"]
JBool(b) == [s |-> <<>>, n |-> IF b THEN 1 ELSE 0, items |-> <<>>, props |-> <<>>, t |-> "bool"]
JNum(k) == [s |-> <<>>, n |-> k, items |-> <<>>, props |-> <<>>, t |-> "num"]
JStr(str) == [s |-> str, n |-> 0, items |-> <<>>, props |-> <<>>, t |-> "str"]
JArr(els) == [s |-> <<>>, n |-> 0, items |-> els, props |-> <<>>, t |-> "arr"]
JObj(ps) == [s |-> <<>>, n |-> 0, items |-> <<>>, props |-> ps, t |-> "obj"]

\* An array index property name: a canonical numeric string
IsIndexKey(k) == /\ k # <<>>
                 /\ \A i \in 1..Len(k) : IsDigit(k[i])
                 /\ (Len(k) > 1 => k[1] # "0")

HasProp(ps, k) == \E i \in 1..Len(ps) : ps[i].k = k

\* obj[k] = v on an ordinary object: an existing property keeps its place,
\* a new index key goes among the index keys in ascending order, any other
\* new key goes last (the order Object.keys reports).
DefineProp(ps, k, v) ==
    IF HasProp(ps, k)
    THEN [i \in 1..Len(ps) |-> IF ps[i].k = k THEN [k |-> k, v |-> v] ELSE ps[i]]
    ELSE IF IsIndexKey(k)
    THEN LET before == {i \in 1..Len(ps) : IsIndexKey(ps[i].k) /\ StrToNat(ps[i].k) < StrToNat(k)}
             m == Cardinality(before)
         IN  Sub(ps, 1, m) \o <<[k |-> k, v |-> v]>> \o Sub(ps, m + 1, Len(ps))
    ELSE Append(ps, [k |-> k, v |-> v])

\* obj[k], with JNull standing for undefined (callers test HasProp first)
GetProp(ps, k) == IF HasProp(ps, k) THEN (ps[CHOOSE i \in 1..Len(ps) : ps[i].k = k]).v ELSE JNull

(***************************************************************************)
(* JSON.parse, for texts without backslash, sign, fraction or exponent     *)
(* characters.                                                             *)
(***************************************************************************)
IsJsonWs(c) == c \in {" ", TAB, NL, "\r"}

RECURSIVE SkipWs(_, _)
SkipWs(s, i) == IF i <= Len(s) /\ IsJsonWs(s[i]) THEN SkipWs(s, i + 1) ELSE i

Fail == [next |-> 0, ok |-> FALSE, val |-> JNull]
Ok(v, nx) == [next |-> nx, ok |-> TRUE, val |-> v]

RECURSIVE DigitsEnd(_, _)
\* first position at or after i that holds no digit
DigitsEnd(s, i) == IF i <= Len(s) /\ IsDigit(s[i]) THEN DigitsEnd(s, i + 1) ELSE i

ParseNumber(s, i) ==
    LET e == DigitsEnd(s, i)
    IN  IF e = i THEN Fail
        ELSE IF s[i] = "0" THEN Ok(JNum(0), i + 1)
        ELSE Ok(JNum(StrToNat(Sub(s, i, e - 1))), e)

\* a string literal opening at s[i]: no control characters inside
ParseString(s, i) ==
    LET closes == {j \in (i + 1)..Len(s) : s[j] = QUOTE}
    IN  IF closes = {} THEN Fail
        ELSE LET j == CHOOSE c \in closes : \A d \in closes : c <= d
             IN  IF \E m \in (i + 1)..(j - 1) : s[m] \in {TAB, NL, "\r", "\\"}
                 THEN Fail
                 ELSE Ok(JStr(Sub(s, i + 1, j - 1)), j + 1)

RECURSIVE ParseValue(_, _)
RECURSIVE ParseElements(_, _, _)
RECURSIVE ParseMembers(_, _, _)

ParseElements(s, i, acc) ==
    LET r == ParseValue(s, i)
    IN  IF ~r.ok THEN Fail
        ELSE LET k == SkipWs(s, r.next)
             IN  IF k > Len(s) THEN Fail
                 ELSE IF s[k] = "," THEN ParseElements(s, k + 1, Append(acc, r.val))
                 ELSE IF s[k] = "]" THEN Ok(JArr(Append(acc, r.val)), k + 1)
                 ELSE Fail

ParseMembers(s, i, acc) ==
    LET j == SkipWs(s, i)
    IN  IF j > Len(s) \/ s[j] # QUOTE THEN Fail
        ELSE LET ks == ParseString(s, j)
             IN  IF ~ks.ok THEN Fail
                 ELSE LET c == SkipWs(s, ks.next)
                      IN  IF c > Len(s) \/ s[c] # ":" THEN Fail
                          ELSE LET r == ParseValue(s, c + 1)
                               IN  IF ~r.ok THEN Fail
                                   ELSE LET k == SkipWs(s, r.next)
                                            ps == DefineProp(acc, ks.val.s, r.val)
                                        IN  IF k > Len(s) THEN Fail
                                            ELSE IF s[k] = "," THEN ParseMembers(s, k + 1, ps)
                                            ELSE IF s[k] = "}" THEN Ok(JObj(ps), k + 1)
                                            ELSE Fail

ParseValue(s, i) ==
    LET j == SkipWs(s, i)
    IN  IF j > Len(s) THEN Fail
        ELSE IF MatchAt(s, j, <<"n", "u", "l", "l">>) THEN Ok(JNull, j + 4)
        ELSE IF MatchAt(s, j, <<"t", "r", "u", "e">>) THEN Ok(JBool(TRUE), j + 4)
        ELSE IF MatchAt(s, j, <<"f", "a", "l", "s", "e">>) THEN Ok(JBool(FALSE), j + 5)
        ELSE IF IsDigit(s[j]) THEN ParseNumber(s, j)
        ELSE IF s[j] = QUOTE THEN ParseString(s, j)
        ELSE IF s[j] = "[" THEN
            LET k == SkipWs(s, j + 1)
            IN  IF k <= Len(s) /\ s[k] = "]" THEN Ok(JArr(<<>>), k + 1)
                ELSE ParseElements(s, j + 1, <<>>)
        ELSE IF s[j] = "{" THEN
            LET k == SkipWs(s, j + 1)
            IN  IF k <= Len(s) /\ s[k] = "}" THEN Ok(JObj(<<>>), k + 1)
                ELSE ParseMembers(s, j + 1, <<>>)
        ELSE Fail

\* JSON.parse(s): ok is FALSE where JSON.parse throws a SyntaxError
JSONParse(s) ==
    LET r == ParseValue(s, 1)
    IN  IF r.ok /\ SkipWs(s, r.next) > Len(s) THEN r ELSE Fail

(***************************************************************************)
(* Utility functions.                                                      *)
(***************************************************************************)
\* p occurs in s at position i, ignoring the case of the letters of p
MatchAtCI(s, i, p) == /\ i >= 1
                      /\ i + Len(p) - 1 <= Len(s)
                      /\ \A m \in 1..Len(p) : Lower(s[i + m - 1]) = p[m]

ScriptOpen == <<"<", "s", "c", "r", "i", "p", "t">>
ScriptClose == <<"<", "/", "s", "c", "r", "i", "p", "t", ">">>

\* positions at which /<script\b[^<]*(?:(?!<\/script>)<[^<]*)*<\/script>/ can
\* end a match that opens at i: the first closing tag after the opening one
ScriptCloses(s, i) == {j \in (i + 7)..Len(s) : MatchAtCI(s, j, ScriptClose)}

ScriptOpensAt(s, i) == /\ MatchAtCI(s, i, ScriptOpen)
                       /\ i + 7 <= Len(s)
                       /\ ~IsWordChar(s[i + 7])
                       /\ ScriptCloses(s, i) # {}

RECURSIVE sanitizeInput(_)
\* input.replace(/<script ... <\/script>/gi, '')
sanitizeInput(input) ==
    LET opens == {i \in 1..Len(input) : ScriptOpensAt(input, i)}
    IN  IF opens = {} THEN input
        ELSE LET i == CHOOSE a \in opens : \A b \in opens : a <= b
                 j == CHOOSE a \in ScriptCloses(input, i) : \A b \in ScriptCloses(input, i) : a <= b
             IN  Sub(input, 1, i - 1) \o sanitizeInput(Sub(input, j + 9, Len(input)))

KeyPrefix == <<"A", "I", "z", "a">>

validateApiKeyNoPrefix(key) == key # <<>> /\ Len(Trim(key)) > MinKeyLen

\* key && key.trim().length > 20 && key.startsWith('AIza')
validateApiKey(key) == key # <<>> /\ Len(Trim(key)) > MinKeyLen /\ StartsWith(key, KeyPrefix)

(***************************************************************************)
(* parseData.                                                              *)
(***************************************************************************)
RECURSIVE Split(_, _)
\* s.split(d) for a one-character separator d
Split(s, d) ==
    LET at == {i \in 1..Len(s) : s[i] = d}
    IN  IF at = {} THEN <<s>>
        ELSE LET i == CHOOSE a \in at : \A b \in at : a <= b
             IN  <<Sub(s, 1, i - 1)>> \o Split(Sub(s, i + 1, Len(s)), d)

\* the predicates of lines.filter(line => line.trim()) and headers.filter(h => h)
NonBlank(line) == Trim(line) # <<>>
NonEmpty(h) == h # <<>>

\* (line.match(new RegExp(`\\${delimiter}`, 'g')) || []).length
CountChar(line, d) == Cardinality({i \in 1..Len(line) : line[i] = d})

IsQuoteChar(c) == c = QUOTE \/ c = "'"

\* f.replace(/^["']|["']$/g, ''): a quote character at the start is removed,
\* and a quote character at the end is removed, each on its own
Unquote(f) ==
    LET a == IF f # <<>> /\ IsQuoteChar(f[1]) THEN Tail(f) ELSE f
    IN  IF a # <<>> /\ IsQuoteChar(a[Len(a)]) THEN Sub(a, 1, Len(a) - 1) ELSE a

\* h.trim().replace(/^["']|["']$/g, '')
CleanField(f) == Unquote(Trim(f))

delimiters == <<",", TAB, "|", ";">>

typeMap(d) == CASE d = "," -> "CSV"
                [] d = TAB -> "TSV"
                [] d = "|" -> "Pipe-separated"
                [] d = ";" -> "Semicolon-separated"

RECURSIVE SniffFrom(_, _, _, _)
\* the delimiters.forEach loop from candidate k on, with the running
\* bestDelimiter and maxCount
SniffFrom(line, k, best, max) ==
    IF k > Len(delimiters) THEN [bestDelimiter |-> best, maxCount |-> max]
    ELSE LET count == CountChar(line, delimiters[k])
         IN  IF count > max THEN SniffFrom(line, k + 1, delimiters[k], count)
             ELSE SniffFrom(line, k + 1, best, max)

Sniff(line) == SniffFrom(line, 1, ",", 0)

RECURSIVE BuildRow(_, _, _, _)
\* headers.forEach((header, index) => { obj[header] = values[index] || '' })
BuildRow(headers, values, index, ps) ==
    IF index > Len(headers) THEN ps
    ELSE BuildRow(headers, values, index + 1,
                  DefineProp(ps, headers[index],
                             JStr(IF index <= Len(values) THEN values[index] ELSE <<>>)))

RowOf(headers, line, d) ==
    LET fields == Split(line, d)
        values == [i \in 1..Len(fields) |-> CleanField(fields[i])]
    IN  JObj(BuildRow(headers, values, 1, <<>>))

UnrecognizedMsg == "Unrecognized format. Please use JSON, CSV, TSV, or other delimited data."

PNull == [data |-> <<>>, kind |-> "null", type |-> ""]
PThrow == [data |-> <<>>, kind |-> "throw", type |-> ""]
POk(rows, ty) == [data |-> rows, kind |-> "ok", type |-> ty]

\* the delimited branch of parseData, on the sanitized text
parseDelimited(sanitizedData) ==
    LET lines == SelectSeq(Split(sanitizedData, NL), NonBlank)
    IN  IF Len(lines) > 1
        THEN LET sn == Sniff(lines[1])
                 d == sn.bestDelimiter
             IN  IF sn.maxCount > 0
                 THEN LET hs == Split(lines[1], d)
                          headers == SelectSeq([i \in 1..Len(hs) |-> CleanField(hs[i])], NonEmpty)
                      IN  IF Len(headers) > 1
                          THEN LET last == IF Len(lines) < MAX_ROWS_DISPLAY + 1 THEN Len(lines)
                                           ELSE MAX_ROWS_DISPLAY + 1
                                   rows == [r \in 1..(last - 1) |-> RowOf(headers, lines[r + 1], d)]
                               IN  IF Len(rows) > 0 THEN POk(rows, typeMap(d)) ELSE PThrow
                          ELSE PThrow
                 ELSE PThrow
        ELSE PThrow

\* parseData after const sanitizedData = sanitizeInput(data.trim())
parseSanitized(sanitizedData) ==
    Eval(JSONParse(sanitizedData), LAMBDA js :
        IF js.ok
        THEN LET arrayData == IF js.val.t = "arr" THEN js.val.items ELSE <<js.val>>
             IN  POk(Sub(arrayData, 1, IF Len(arrayData) < MAX_ROWS_DISPLAY THEN Len(arrayData)
                                       ELSE MAX_ROWS_DISPLAY), "JSON")
        ELSE parseDelimited(sanitizedData))

\* parseData(data): kind is "null" for the null result, "ok" for
\* { data, type } and "throw" for the Unrecognized format error
parseData(data) ==
    IF Trim(data) = <<>> THEN PNull
    ELSE Eval(sanitizeInput(Trim(data)), parseSanitized)

(***************************************************************************)
(* columns.                                                                *)
(***************************************************************************)
RECURSIVE Indices(_, _)
\* the index keys "0" .. "n-1" of an array or a string of length n
Indices(i, n) == IF i >= n THEN <<>> ELSE <<NatToStr(i)>> \o Indices(i + 1, n)

\* Object.keys(v) for a value other than null
ObjectKeys(v) ==
    CASE v.t = "obj" -> [i \in 1..Len(v.props) |-> v.props[i].k]
      [] v.t = "arr" -> Indices(0, Len(v.items))
      [] v.t = "str" -> Indices(0, Len(v.s))
      [] OTHER -> <<>>

InSeq(x, seq) == \E i \in 1..Len(seq) : seq[i] = x

RECURSIVE AddAll(_, _)
\* keys.forEach(key => allKeys.add(key)) on the insertion-ordered Set acc
AddAll(acc, keys) ==
    IF keys = <<>> THEN acc
    ELSE AddAll(IF InSeq(Head(keys), acc) THEN acc ELSE Append(acc, Head(keys)), Tail(keys))

RECURSIVE KeysOfAll(_, _)
KeysOfAll(rows, acc) ==
    IF rows = <<>> THEN acc ELSE KeysOfAll(Tail(rows), AddAll(acc, ObjectKeys(Head(rows))))

\* Object.keys(item) throws a TypeError for a null item
columnsThrows(rows) == \E i \in 1..Len(rows) : rows[i].t = "null"

\* the columns memo, for a parsedData without a null item
columns(rows) == IF Len(rows) = 0 THEN <<>> ELSE KeysOfAll(rows, <<>>)

(***************************************************************************)
(* correctDataWithGemini: response handling.                               *)
(***************************************************************************)
Fence3 == <<FENCE, FENCE, FENCE>>

RECURSIVE WordEnd(_, _)
\* first position at or after i that holds no \w character
WordEnd(s, i) == IF i <= Len(s) /\ IsWordChar(s[i]) THEN WordEnd(s, i + 1) ELSE i

\* t.replace(/^```[\w]*\n?/, '')
StripLeadingFence(t) ==
    IF StartsWith(t, Fence3)
    THEN LET w == WordEnd(t, 4)
             e == IF w <= Len(t) /\ t[w] = NL THEN w + 1 ELSE w
         IN  Sub(t, e, Len(t))
    ELSE t

\* t.replace(/\n?```$/, '')
StripTrailingFence(t) ==
    IF Len(t) >= 3 /\ Sub(t, Len(t) - 2, Len(t)) = Fence3
    THEN IF Len(t) >= 4 /\ t[Len(t) - 3] = NL THEN Sub(t, 1, Len(t) - 4) ELSE Sub(t, 1, Len(t) - 3)
    ELSE t

\* result.candidates[0].content.parts[0].text.trim() with the fences removed
CleanReply(text) == Trim(StripTrailingFence(StripLeadingFence(Trim(text))))

InvalidKeyMsg == "Please enter a valid Gemini API key first"
TimeoutMsg == "Request timed out. Please try again."
NoCandidatesMsg == "No response from Gemini API"

CatchMessageNoAbort(name, message) == "AI correction failed: " \o message

\* the catch block of correctDataWithGemini: the message of the error it throws
CatchMessage(name, message) ==
    IF name = "AbortError" THEN TimeoutMsg ELSE "AI correction failed: " \o message

(***************************************************************************)
(* Inputs of the model.                                                    *)
(***************************************************************************)
CsvText == <<"a", ",", "b", NL, "1", ",", "2">>
BadText == <<"x", " ", "y">>
NullText == <<"n", "u", "l", "l">>
JsonText == <<"[", "{", QUOTE, "a", QUOTE, ":", "1", "}", "]">>
BlankText == <<" ">>

\* texts typed or pasted into the textarea
EditTexts == {<<>>, BlankText, CsvText, BadText, NullText, JsonText}

\* texts of uploaded files
FileTexts == {CsvText, BadText}

FileNames == {"data.csv"}

\* texts generated by the repair service
FencedCsv == Fence3 \o <<"c", "s", "v", NL>> \o CsvText \o <<NL>> \o Fence3
\* a reply in two layers of fences
DoubleFencedCsv == Fence3 \o <<NL>> \o FencedCsv \o <<NL>> \o Fence3
Replies == {FencedCsv, DoubleFencedCsv, BadText, BlankText}

GoodKey == KeyPrefix \o <<"S", "y", "A", "1", "2", "3", "4", "5", "6", "7", "8", "9", "0", "a", "b", "c", "d", "e">>
ShortKey == KeyPrefix \o <<"S", "y", "A">>
ForeignKey == <<"s", "k", "-", "a">> \o <<"S", "y", "A", "1", "2", "3", "4", "5", "6", "7", "8", "9", "0", "a", "b", "c", "d", "e">>
PaddedKey == KeyPrefix \o <<" ", " ", " ", " ", " ", " ", " ", " ", " ", " ", " ", " ", " ", " ", " ", " ", " ", " ">>

\* credentials typed into the API key field
Keys == {<<>>, GoodKey, ForeignKey}

\* credentials the pre-check is evaluated on
KeySamples == Keys \cup {ShortKey, PaddedKey}

\* bodies the service can answer with
OkBodies == [kind : {"text"}, text : Replies]
              \cup {[kind |-> k, text |-> <<>>] : k \in {"nocandidates", "nocontent", "badjson"}}
ErrBodies == {[kind |-> k, text |-> <<>>] : k \in {"errmsg", "status"}}

ServiceErrMsg == "API key not valid. Please pass a valid API key."
StatusErrMsg == "API Error: 400"

CallIds == 1..MaxCalls

(***************************************************************************)
(* State.                                                                  *)
(***************************************************************************)
VARIABLES
    inputData,     \* useState(''): the text of the textarea
    parsedData,    \* useState(null): JNull or the array of rows
    error,         \* useState('')
    dataType,      \* useState('')
    isProcessing,  \* useState(false)
    apiKey,        \* useLocalStorage('gemini_api_key', '')
    toast,         \* useState(null): the message shown, "" for null
    fileName,      \* useState('')
    crashed,       \* a render threw: the component is unmounted
    nextId,        \* identity of the next correctDataWithGemini call
    phase,         \* per call: "none", "fetch" (await fetch), "body" (await response.json()), "done"
    respOk,        \* per call: response.ok
    elapsed,       \* per call in flight: clock ticks since the call started
    wire,          \* calls whose response the service has not yet sent back
    aborted,       \* calls whose controller.abort() has run
    reparses,      \* number of parseData(corrected) evaluations
    clicks,        \* number of times the user asked for a repair
    sent,          \* number of fetch requests issued
    lastStep,      \* the branch the last handler step ended in
    lastMsg        \* the message of the failure the last handler step ended in

ui == <<inputData, parsedData, error, dataType, isProcessing, apiKey, toast, fileName, crashed>>
net == <<nextId, phase, respOk, elapsed, wire, aborted, reparses, clicks, sent>>
hist == <<lastStep, lastMsg>>
vars == <<ui, net, hist>>

Init ==
    /\ inputData = <<>>
    /\ parsedData = JNull
    /\ error = ""
    /\ dataType = ""
    /\ isProcessing = FALSE
    /\ apiKey \in Keys
    /\ toast = ""
    /\ fileName = ""
    /\ crashed = FALSE
    /\ nextId = 1
    /\ phase = [i \in CallIds |-> "none"]
    /\ respOk = [i \in CallIds |-> FALSE]
    /\ elapsed = [i \in CallIds |-> 0]
    /\ wire = {}
    /\ aborted = {}
    /\ reparses = 0
    /\ clicks = 0
    /\ sent = 0
    /\ lastStep = "none"
    /\ lastMsg = ""

isApiKeyValid == validateApiKey(apiKey)

\* the render after a state update: the columns memo throws on a null row
RenderThrows(pd) == pd.t = "arr" /\ columnsThrows(pd.items)

SuccessToast(r) == "Successfully parsed " \o ToString(Len(r.data)) \o " rows as " \o r.type

(***************************************************************************)
(* handleDataChange and handleFileLoad.                                    *)
(***************************************************************************)
\* a handler whose blank branch returns without clearing the stored result
EditResultKeepingResult(value, tst) ==
    IF Trim(value) = <<>>
    THEN [inputData |-> value, parsedData |-> parsedData, error |-> "",
          dataType |-> dataType, toast |-> tst, step |-> "edit_empty"]
    ELSE Eval(parseData(value), LAMBDA r :
             IF r.kind = "ok"
             THEN [inputData |-> value, parsedData |-> JArr(r.data), error |-> "",
                   dataType |-> r.type, toast |-> SuccessToast(r), step |-> "edit_ok"]
             ELSE [inputData |-> value, parsedData |-> JNull, error |-> UnrecognizedMsg,
                   dataType |-> "", toast |-> tst, step |-> "edit_fail"])

\* the state handleDataChange(value) leaves; tst is the toast it was called with
EditResult(value, tst) ==
    IF Trim(value) = <<>>
    THEN [inputData |-> value, parsedData |-> JNull, error |-> "",
          dataType |-> "", toast |-> tst, step |-> "edit_empty"]
    ELSE Eval(parseData(value), LAMBDA r :
             IF r.kind = "ok"
             THEN [inputData |-> value, parsedData |-> JArr(r.data), error |-> "",
                   dataType |-> r.type, toast |-> SuccessToast(r), step |-> "edit_ok"]
             ELSE IF r.kind = "throw"
             THEN [inputData |-> value, parsedData |-> JNull, error |-> UnrecognizedMsg,
                   dataType |-> "", toast |-> tst, step |-> "edit_fail"]
             ELSE [inputData |-> value, parsedData |-> parsedData, error |-> "",
                   dataType |-> dataType, toast |-> tst, step |-> "edit_empty"])

handleDataChange(value) ==
    \E e \in {EditResult(value, toast)} :
        /\ ~crashed
        /\ inputData' = e.inputData
        /\ error' = e.error
        /\ fileName' = ""
        /\ parsedData' = e.parsedData
        /\ dataType' = e.dataType
        /\ toast' = e.toast
        /\ crashed' = RenderThrows(e.parsedData)
        /\ lastStep' = e.step
        /\ lastMsg' = e.error
        /\ UNCHANGED <<isProcessing, apiKey, net>>

\* setFileName(filename); handleDataChange(content); showToast(...): the
\* setFileName('') of handleDataChange is the later update of the batch
handleFileLoad(content, filename) ==
    \E e \in {EditResult(content, toast)} :
        /\ ~crashed
        /\ inputData' = e.inputData
        /\ error' = e.error
        /\ fileName' = ""
        /\ parsedData' = e.parsedData
        /\ dataType' = e.dataType
        /\ toast' = "File \"" \o filename \o "\" loaded successfully"
        /\ crashed' = RenderThrows(e.parsedData)
        /\ lastStep' = e.step
        /\ lastMsg' = e.error
        /\ UNCHANGED <<isProcessing, apiKey, net>>

\* the input of ApiKeyManager: onChange={(e) => setApiKey(e.target.value)}
setApiKey(key) ==
    /\ ~crashed
    /\ key # apiKey
    /\ apiKey' = key
    /\ UNCHANGED <<inputData, parsedData, error, dataType, isProcessing, toast, fileName, crashed, net, hist>>

(***************************************************************************)
(* The repair cycle: handleAICorrection and correctDataWithGemini.         *)
(***************************************************************************)
\* {error && ( ... {inputData.trim() && ( <button> ... )} )}
FixButtonShown == error # "" /\ Trim(inputData) # <<>>

FixButtonEnabledAlwaysIfKey == isApiKeyValid

\* disabled={isProcessing || !isApiKeyValid}
FixButtonEnabled == ~(isProcessing \/ ~isApiKeyValid)

StartOutcomeInverted(key) ==
    IF validateApiKey(key) THEN [error |-> InvalidKeyMsg, sends |-> FALSE]
    ELSE [error |-> "", sends |-> TRUE]

\* if (!isApiKeyValid) throw new Error('Please enter a valid Gemini API key first')
StartOutcome(key) ==
    IF ~validateApiKey(key) THEN [error |-> InvalidKeyMsg, sends |-> FALSE]
    ELSE [error |-> "", sends |-> TRUE]

ResponseAcceptedLate(id) == phase[id] = "fetch" \/ id \in aborted

\* the promise of fetch(..., { signal }) is pending: not yet fulfilled,
\* rejected or aborted
ResponseAccepted(id) == phase[id] = "fetch"

\* a catch that also drops the parsed result, as the catch of handleDataChange does
RepairFailsClearingData(id, msg, how) ==
    /\ error' = msg
    /\ toast' = msg
    /\ isProcessing' = FALSE
    /\ parsedData' = JNull
    /\ dataType' = ""
    /\ phase' = [phase EXCEPT ![id] = "done"]
    /\ respOk' = [respOk EXCEPT ![id] = FALSE]
    /\ elapsed' = [elapsed EXCEPT ![id] = 0]
    /\ lastStep' = how
    /\ lastMsg' = msg
    /\ UNCHANGED <<inputData, apiKey, fileName, crashed>>

\* catch (err) { setError(err.message); showToast(err.message, 'error') }
\* finally { setIsProcessing(false) }
RepairFails(id, msg, how) ==
    /\ error' = msg
    /\ toast' = msg
    /\ isProcessing' = FALSE
    /\ phase' = [phase EXCEPT ![id] = "done"]
    /\ respOk' = [respOk EXCEPT ![id] = FALSE]
    /\ elapsed' = [elapsed EXCEPT ![id] = 0]
    /\ lastStep' = how
    /\ lastMsg' = msg
    /\ UNCHANGED <<inputData, parsedData, dataType, apiKey, fileName, crashed>>

\* handleAICorrection up to its first await
handleAICorrection ==
    IF Trim(inputData) = <<>>
    THEN UNCHANGED <<ui, nextId, phase, respOk, elapsed, wire, aborted, reparses, sent, hist>>
    ELSE LET o == StartOutcome(apiKey)
             id == nextId
         IN  IF o.sends
             THEN /\ isProcessing' = TRUE
                  /\ phase' = [phase EXCEPT ![id] = "fetch"]
                  /\ elapsed' = [elapsed EXCEPT ![id] = 0]
                  /\ wire' = wire \cup {id}
                  /\ nextId' = nextId + 1
                  /\ sent' = sent + 1
                  /\ UNCHANGED <<inputData, parsedData, error, dataType, apiKey, toast, fileName,
                                 crashed, respOk, aborted, reparses, hist>>
             ELSE /\ RepairFails(id, o.error, "repair_invalid_key")
                  /\ nextId' = nextId + 1
                  /\ UNCHANGED <<wire, aborted, reparses, sent>>

\* a click on the "Fix with AI" button
ClickFixWithAI ==
    /\ ~crashed
    /\ nextId <= MaxCalls
    /\ FixButtonShown
    /\ FixButtonEnabled
    /\ clicks' = clicks + 1
    /\ handleAICorrection

\* time passes for a call that has not ended; the abort timer fires as soon
\* as it is due
Tick(id) ==
    /\ ~crashed
    /\ phase[id] \in {"fetch", "body"}
    /\ elapsed[id] <= DeadlineTicks
    /\ ~(phase[id] = "fetch" /\ elapsed[id] = DeadlineTicks)
    /\ elapsed' = [elapsed EXCEPT ![id] = @ + 1]
    /\ UNCHANGED <<ui, nextId, phase, respOk, wire, aborted, reparses, clicks, sent, hist>>

\* setTimeout(() => controller.abort(), 30000) fires: fetch rejects with an
\* AbortError
Timeout(id) ==
    /\ ~crashed
    /\ phase[id] = "fetch"
    /\ elapsed[id] = DeadlineTicks
    /\ aborted' = aborted \cup {id}
    /\ RepairFails(id, CatchMessage("AbortError", "The user aborted a request."), "repair_timeout")
    /\ UNCHANGED <<nextId, wire, reparses, clicks, sent>>

\* the service answers: await fetch(...) resumes and clearTimeout(timeoutId)
\* runs, or the answer belongs to a fetch that is no longer pending
ResponseArrives(id, ok) ==
    /\ ~crashed
    /\ id \in wire
    /\ phase[id] = "fetch" => elapsed[id] < DeadlineTicks
    /\ wire' = wire \ {id}
    /\ IF ResponseAccepted(id)
       THEN /\ phase' = [phase EXCEPT ![id] = "body"]
            /\ respOk' = [respOk EXCEPT ![id] = ok]
       ELSE UNCHANGED <<phase, respOk>>
    /\ UNCHANGED <<ui, nextId, elapsed, aborted, reparses, clicks, sent, hist>>

\* the request fails in transport: fetch rejects with a TypeError
FetchFails(id) ==
    /\ ~crashed
    /\ id \in wire
    /\ phase[id] = "fetch"
    /\ elapsed[id] < DeadlineTicks
    /\ wire' = wire \ {id}
    /\ RepairFails(id, CatchMessage("TypeError", "Failed to fetch"), "repair_fail")
    /\ UNCHANGED <<nextId, aborted, reparses, clicks, sent>>

\* the message of the error thrown for a body without usable text
BodyError(body) ==
    CASE body.kind = "errmsg" -> CatchMessage("Error", ServiceErrMsg)
      [] body.kind = "status" -> CatchMessage("Error", StatusErrMsg)
      [] body.kind = "nocandidates" -> CatchMessage("Error", NoCandidatesMsg)
      [] body.kind = "nocontent" ->
            CatchMessage("TypeError", "Cannot read properties of undefined (reading 'parts')")
      [] body.kind = "badjson" -> CatchMessage("SyntaxError", "Unexpected end of JSON input")

\* handleAICorrection after await correctDataWithGemini(inputData) returned
RepairSucceeds(id, corrected) ==
    \E r \in {parseData(corrected)} :
        /\ inputData' = corrected
        /\ reparses' = reparses + 1
        /\ IF r.kind = "ok"
           THEN /\ parsedData' = JArr(r.data)
                /\ dataType' = r.type
                /\ error' = ""
                /\ toast' = "AI successfully corrected your data!"
                /\ crashed' = RenderThrows(JArr(r.data))
                /\ lastStep' = "repair_ok_parsed"
                /\ lastMsg' = ""
           ELSE IF r.kind = "throw"
           THEN /\ error' = UnrecognizedMsg
                /\ toast' = UnrecognizedMsg
                /\ lastStep' = "repair_ok_unparsed"
                /\ lastMsg' = UnrecognizedMsg
                /\ UNCHANGED <<parsedData, dataType, crashed>>
           ELSE /\ lastStep' = "repair_ok_empty"
                /\ lastMsg' = ""
                /\ UNCHANGED <<parsedData, dataType, error, toast, crashed>>
        /\ isProcessing' = FALSE
        /\ phase' = [phase EXCEPT ![id] = "done"]
        /\ respOk' = [respOk EXCEPT ![id] = FALSE]
        /\ elapsed' = [elapsed EXCEPT ![id] = 0]
        /\ UNCHANGED <<apiKey, fileName>>

\* await response.json() settles: the rest of correctDataWithGemini and of
\* handleAICorrection runs
BodyArrives(id, body) ==
    /\ ~crashed
    /\ phase[id] = "body"
    /\ body \in (IF respOk[id] THEN OkBodies ELSE ErrBodies)
    /\ IF body.kind = "text"
       THEN \E corrected \in {CleanReply(body.text)} : RepairSucceeds(id, corrected)
       ELSE /\ RepairFails(id, BodyError(body), "repair_fail")
            /\ UNCHANGED reparses
    /\ UNCHANGED <<nextId, wire, aborted, clicks, sent>>

(***************************************************************************)
(* Specification.                                                          *)
(***************************************************************************)
Next ==
    \/ \E value \in EditTexts : handleDataChange(value)
    \/ \E content \in FileTexts, filename \in FileNames : handleFileLoad(content, filename)
    \/ \E key \in Keys : setApiKey(key)
    \/ ClickFixWithAI
    \/ \E id \in CallIds : Tick(id)
    \/ \E id \in CallIds : Timeout(id)
    \/ \E id \in CallIds, ok \in BOOLEAN : ResponseArrives(id, ok)
    \/ \E id \in CallIds : FetchFails(id)
    \/ \E id \in CallIds, body \in OkBodies \cup ErrBodies : BodyArrives(id, body)

Spec == Init /\ [][Next]_vars

(***************************************************************************)
(* Properties of the repair cycle.                                         *)
(***************************************************************************)
\* the correctDataWithGemini calls that have not ended
Outstanding == {id \in CallIds : phase[id] \in {"fetch", "body"}}

\* a call that has ended stays ended
DoneIsFinal == \A id \in CallIds : phase[id] = "done" => phase'[id] = "done"

\* C1: at most one repair call is outstanding at any time, and it is
\* outstanding only while isProcessing is true, whatever the interleaving of
\* repair clicks, edits, file loads and API-key changes; while isProcessing is
\* true no step issues a request.
C1_AtMostOneOutstanding ==
    /\ [](Cardinality(Outstanding) <= 1 /\ (Outstanding # {} <=> isProcessing))
    /\ [][isProcessing => sent' = sent]_vars

\* a repair is in flight and only the isProcessing guard keeps the button
\* from starting another one
C1_Witness ==
    /\ Outstanding # {}
    /\ FixButtonShown
    /\ isApiKeyValid
    /\ nextId <= MaxCalls
    /\ lastStep = "edit_fail"

\* C2: the response of a call that the timeout has aborted changes nothing
\* when it arrives: not the input text, the parsed result, the format label
\* or the error text, and not the state of any call, so it is not taken as
\* the response of a newer call either.
C2_LateResponseIgnored ==
    [][/\ \A id \in CallIds :
            (id \in aborted /\ id \in wire /\ id \notin wire')
                => UNCHANGED <<inputData, parsedData, dataType, error, isProcessing, phase, respOk>>
       /\ DoneIsFinal]_vars

\* the late response of an aborted call has arrived while a newer call was
\* waiting for its own response
C2_Witness ==
    \E id, newer \in CallIds :
        /\ id \in aborted
        /\ id \notin wire
        /\ newer > id
        /\ phase[newer] = "fetch"
        /\ newer \in wire

C4_OneCallOneReparse ==
    /\ [](sent = clicks /\ reparses <= sent)
    /\ [][/\ sent' # sent => (sent' = sent + 1 /\ clicks' = clicks + 1)
          /\ reparses' # reparses =>
                /\ reparses' = reparses + 1
                /\ sent' = sent
                /\ \E id \in CallIds : phase[id] = "body" /\ phase'[id] = "done"
                /\ Outstanding' = {}
                /\ ~isProcessing'
                /\ (lastStep' = "repair_ok_unparsed" => FixButtonShown' /\ error' = UnrecognizedMsg)
          /\ DoneIsFinal]_vars

\* the re-parse of a corrected text has failed and no further call was made
C4_Witness ==
    /\ lastStep = "repair_ok_unparsed"
    /\ clicks = 1
    /\ sent = 1
    /\ reparses = 1
    /\ Outstanding = {}

\* C5: the deadline bounds the whole call: no call is still pending, waiting
\* for the response or reading its body, once the deadline has passed.
C5_CallEndsByDeadline ==
    \A id \in CallIds : phase[id] \in {"fetch", "body"} => elapsed[id] <= DeadlineTicks

\* C6: with no handler in progress, a stored parsed result and format label
\* are the result of parseData on the stored input text.
C6_ResultMatchesInput ==
    (~isProcessing /\ ~crashed /\ (parsedData # JNull \/ dataType # ""))
        => Eval(parseData(inputData), LAMBDA r :
                r.kind = "ok" /\ parsedData = JArr(r.data) /\ dataType = r.type)

FailureSteps == {"edit_fail", "repair_fail", "repair_timeout", "repair_invalid_key", "repair_ok_unparsed"}
SuccessSteps == {"edit_ok", "repair_ok_parsed", "repair_ok_empty"}

\* C7: after a step that ends in a Failure the error text is that failure's
\* message; after a step that ends in a Success (a parsed edit, a repair that
\* returned corrected text) the error text is empty.
C7_ErrorTextFollowsOutcome ==
    /\ lastStep \in FailureSteps => (error = lastMsg /\ error # "")
    /\ lastStep \in SuccessSteps => error = ""

\* C8: no input makes an exception escape: the component never reaches a
\* render that throws.
C8_NoUncaughtFault == ~crashed

\* the pre-check as the claim words it
PassesPreCheck(key) == key # <<>> /\ Len(key) > MinKeyLen /\ StartsWith(key, KeyPrefix)

\* C9: a request is issued only from Failed (non-empty error text over
\* non-blank input text) and with a credential that passes the pre-check;
\* correctDataWithGemini started with a credential that fails the pre-check
\* sends nothing and fails with the invalid-credential message.
C9_CallOnlyWhenFailedAndKeyValid ==
    /\ [][sent' # sent => (error # "" /\ Trim(inputData) # <<>> /\ PassesPreCheck(apiKey)
                           /\ validateApiKey(apiKey))]_vars
    /\ [](\A key \in KeySamples :
            ~PassesPreCheck(key) => StartOutcome(key) = [error |-> InvalidKeyMsg, sends |-> FALSE])

\* a request has been issued with the valid key
C9_Witness ==
    /\ sent >= 1
    /\ apiKey = GoodKey
    /\ error # ""
    /\ \E id \in CallIds : phase[id] = "fetch" /\ elapsed[id] = 0

\* C10: after a repair returned corrected text the state is the one an edit
\* with that text produces.
C10_RepairActsAsEdit ==
    (lastStep \in {"repair_ok_parsed", "repair_ok_unparsed", "repair_ok_empty"} /\ ~crashed)
        => Eval(EditResult(inputData, toast), LAMBDA e :
                parsedData = e.parsedData /\ dataType = e.dataType /\ error = e.error)

(***************************************************************************)
(* Properties of the orchestrator's transitions.                           *)
(***************************************************************************)
\* the messages a failed repair call can end with
RepairFailureTexts ==
    {TimeoutMsg, InvalidKeyMsg,
     "AI correction failed: No response from Gemini API",
     "AI correction failed: API key not valid. Please pass a valid API key.",
     "AI correction failed: API Error: 400",
     "AI correction failed: Failed to fetch",
     "AI correction failed: Cannot read properties of undefined (reading 'parts')",
     "AI correction failed: Unexpected end of JSON input"}

\* C11: a step that ends a repair call in a failure stores the failure's
\* message as the error text (so the orchestrator shows a failure), releases
\* the guard, and leaves the stored input text, the parsed result and the
\* format label as they were.
C11_RepairFailureKeepsData ==
    [][\A id \in CallIds :
          (/\ phase[id] \in {"fetch", "body"}
           /\ phase'[id] = "done"
           /\ lastStep' \in {"repair_fail", "repair_timeout", "repair_invalid_key"})
             => /\ error' \in RepairFailureTexts
                /\ (lastStep' = "repair_timeout" <=> error' = TimeoutMsg)
                /\ ~isProcessing'
                /\ UNCHANGED <<inputData, parsedData, dataType>>]_vars

\* a repair has failed while a parsed result of a later edit was stored
C11_Witness ==
    /\ lastStep = "repair_fail"
    /\ error = "AI correction failed: No response from Gemini API"
    /\ parsedData # JNull
    /\ dataType = "CSV"

\* the edit texts that are empty or whitespace-only
BlankEdits == {value \in EditTexts : Trim(value) = <<>>}

\* C12: an edit with an empty or whitespace-only text ends in Idle from any
\* state: no parsed result, no format label, no error text, and the
\* notification is left as it was.
C12_BlankEditGoesIdle ==
    [][(\E value \in BlankEdits : handleDataChange(value))
          => /\ parsedData' = JNull
             /\ dataType' = ""
             /\ error' = ""
             /\ toast' = toast
             /\ Trim(inputData') = <<>>]_vars

\* a whitespace-only edit has been made over a parsed result
C12_Witness ==
    /\ lastStep = "edit_empty"
    /\ inputData = BlankText
    /\ toast = "Successfully parsed 1 rows as CSV"
    /\ parsedData = JNull

\* C13: after every step into Parsed (an edit, a file load, the re-parse of
\* a repaired text) the notification is the report of the result's row
\* count and format label.
C13_ParsedIsReported ==
    lastStep \in {"edit_ok", "repair_ok_parsed"}
        => toast = "Successfully parsed " \o ToString(Len(parsedData.items))
                       \o " rows as " \o dataType

(***************************************************************************)
(* The parser on its own: one text pasted into the empty component.        *)
(***************************************************************************)
\* longest generated text
MaxTextLen == 5

TextChars == {"a", ",", ";", NL, QUOTE, " "}

RECURSIVE TextsOfLen(_)
TextsOfLen(len) ==
    IF len = 0 THEN {<<>>}
    ELSE {Append(t, c) : t \in TextsOfLen(len - 1), c \in TextChars}

\* every text over TextChars of 1 .. MaxTextLen characters
GenTexts == UNION {TextsOfLen(len) : len \in 1..MaxTextLen}

\* the spec's example: objects with different keys
TwoKeysJson ==
    <<"[", "{", QUOTE, "a", QUOTE, ":", "1", "}", ",", "{", QUOTE, "b", QUOTE, ":", "2",
          "}", "]">>
\* an object whose second key is an array index
IndexKeyJson ==
    <<"[", "{", QUOTE, "b", QUOTE, ":", "1", ",", QUOTE, "1", QUOTE, ":", "2", "}", "]">>
\* more elements than the row cap and its successor
LongJson ==
    <<"[", "{", QUOTE, "a", QUOTE, ":", "1", "}", ",", "{", QUOTE, "a", QUOTE, ":", "2",
          "}", ",", "{", QUOTE, "a", QUOTE, ":", "3", "}", ",", "{", QUOTE, "a", QUOTE,
          ":", "4", "}", "]">>
\* JSON roots that are not arrays
ObjectJson == <<"{", QUOTE, "a", QUOTE, ":", "1", "}">>
NumberJson == <<"1">>
StringJson == <<QUOTE, "a", ",", "b", QUOTE>>
TrueJson == <<"t", "r", "u", "e">>
\* JSON over two lines with a comma in the first
TableLikeJson == <<"[", "1", ",", NL, "2", "]">>
NumbersJson == <<"[", "1", ",", "2", "]">>
\* valid JSON holding the two tags of a script element
ScriptJson ==
    <<"{", QUOTE, "<", "s", "c", "r", "i", "p", "t", ">", QUOTE, ":", QUOTE, "<", "/",
          "s", "c", "r", "i", "p", "t", ">", QUOTE, "}">>
\* a script element across the first line break
ScriptLines ==
    <<"a", "<", "s", "c", "r", "i", "p", "t", ">", NL, "<", "/", "s", "c", "r", "i", "p",
          "t", ">", ";", "b", NL, "1", ";", "2">>
\* a script element around the only data row
ScriptRows ==
    <<"a", ",", "b", NL, "<", "s", "c", "r", "i", "p", "t", ">", NL, "1", ",", "2", "<",
          "/", "s", "c", "r", "i", "p", "t", ">">>
\* one line that is JSON only without its script element
ScriptSingle ==
    <<"[", "1", "<", "s", "c", "r", "i", "p", "t", ">", "<", "/", "s", "c", "r", "i",
          "p", "t", ">", "]">>
\* equal counts of tab and pipe
TabPipeText == <<"a", TAB, "b", "|", "c", NL, "1", TAB, "2", "|", "3">>
PipeText == <<"a", "|", "b", NL, "1", "|", "2">>
\* more semicolons than commas
SemiCommaText ==
    <<"a", ";", "b", ";", "c", ",", "d", NL, "1", ";", "2", ";", "3", ",", "4">>
\* fields in matching quotes
QuotedText ==
    <<QUOTE, "a", QUOTE, ",", "'", "b", "'", NL, QUOTE, "1", QUOTE, ",", "'", "2", "'">>
\* fields with a quote at one end only
HalfQuotedText == <<QUOTE, "a", ",", "b", "'", NL, "1", ",", "2">>
\* rows with fewer and with more fields than headers
ShortRowText == <<"a", ",", "b", NL, "1", NL, "1", ",", "2", ",", "3">>
\* one non-empty header
EmptyHeaderText == <<"a", ",", NL, "1", ",", "2">>
\* the same header twice
DupHeaderText == <<"a", ",", "a", NL, "1", ",", "2">>
\* more data lines than the row cap and its successor
LongCsv ==
    <<"a", ",", "b", NL, "1", ",", "2", NL, "3", ",", "4", NL, "5", ",", "6", NL, "7",
          ",", "8">>
\* a script element across the first two of five elements
ScriptLongJson ==
    <<"[", "{", QUOTE, "a", QUOTE, ":", QUOTE, "<", "s", "c", "r", "i", "p", "t", ">",
          QUOTE, "}", ",", "{", QUOTE, "a", QUOTE, ":", QUOTE, "<", "/", "s", "c", "r",
          "i", "p", "t", ">", QUOTE, "}", ",", "{", QUOTE, "a", QUOTE, ":", "3", "}",
          ",", "{", QUOTE, "a", QUOTE, ":", "4", "}", ",", "{", QUOTE, "a", QUOTE, ":",
          "5", "}", "]">>
\* a JSON array without elements
EmptyArrayJson ==
    <<"[", "]">>
\* an object whose value is the number 0
ZeroJson ==
    <<"[", "{", QUOTE, "a", QUOTE, ":", "0", "}", "]">>
\* objects with a number, a string, true and false as values
ScalarsJson ==
    <<"[", "{", QUOTE, "a", QUOTE, ":", "1", "2", ",", QUOTE, "b", QUOTE, ":", QUOTE,
          "x", QUOTE, "}", ",", "{", QUOTE, "a", QUOTE, ":", "t", "r", "u", "e", ",",
          QUOTE, "c", QUOTE, ":", "f", "a", "l", "s", "e", "}", "]">>
\* a field in two layers of quotes
NestedQuoteText ==
    <<"a", ",", "b", NL, QUOTE, QUOTE, "1", QUOTE, QUOTE, ",", "2">>
\* tab-separated rows, the first of them with empty cells only
EmptyTabRowText ==
    <<"a", TAB, "b", NL, TAB, NL, "1", TAB, "2">>
\* an array of one string
StringsJson ==
    <<"[", QUOTE, "a", "b", QUOTE, "]">>
\* an array of one array
NestedJson ==
    <<"[", "[", "1", ",", "2", "]", "]">>
\* an array of one null and one boolean
NullsJson ==
    <<"[", "n", "u", "l", "l", ",", "t", "r", "u", "e", "]">>
\* a tab-separated table with a comma in a header and a quote inside a cell
QuoteCellText ==
    <<"a", ",", "b", TAB, "c", TAB, "d", NL, "1", QUOTE, "2", TAB, "3", TAB, "4">>
\* an empty name between two header names
GapHeaderText ==
    <<"a", ",", ",", "b", NL, "1", ",", "2", ",", "3">>

SampleTexts ==
    {CsvText, BadText, NullText, JsonText, BlankText,
     TwoKeysJson, IndexKeyJson, LongJson, ObjectJson, NumberJson,
     StringJson, TrueJson, TableLikeJson, NumbersJson, ScriptJson,
     ScriptLines, ScriptRows, ScriptSingle, TabPipeText, PipeText,
     SemiCommaText, QuotedText, HalfQuotedText, ShortRowText, EmptyHeaderText,
     DupHeaderText,
     LongCsv, ScriptLongJson,
     EmptyArrayJson,
     ZeroJson, ScalarsJson,
     NestedQuoteText, EmptyTabRowText,
     StringsJson, NestedJson, NullsJson,
     QuoteCellText,
     GapHeaderText}

ParseTexts == GenTexts \cup SampleTexts

ParseInit == Init /\ apiKey = <<>>

\* the first edit: the text is pasted into the empty textarea
PasteText(value) == lastStep = "none" /\ handleDataChange(value)

\* the texts that can be pasted: any of them while nothing has been pasted yet
Pastable == IF lastStep = "none" THEN ParseTexts ELSE {}

ParseNext == \E value \in Pastable : PasteText(value)

ParseSpec == ParseInit /\ [][ParseNext]_vars

(***************************************************************************)
(* Properties of detection and normalization.                              *)
(***************************************************************************)
Range(seq) == {seq[i] : i \in 1..Len(seq)}

\* a parsed result is stored and rendered
HasResult == lastStep = "edit_ok" /\ ~crashed

\* C14: in every parsed result, from JSON or from delimited text, the keys
\* of every record are exactly the columns of the result.
C14_RecordsHaveAllColumns ==
    HasResult =>
        \A i \in 1..Len(parsedData.items) :
            Range(ObjectKeys(parsedData.items[i])) = Range(columns(parsedData.items))

\* the text read as one JSON value once trimmed
SpecJson(text) == JSONParse(Trim(text))
SpecIsJson(text) == SpecJson(text).ok

\* an edit has been handled
Edited == lastStep # "none"

\* C15: a text that parses as one JSON value once trimmed is classified as
\* JSON whatever its root, also when it looks like a delimited table, and a
\* root that is not an array becomes a sequence of one element.
C15_JsonTextIsJson ==
    (Edited /\ SpecIsJson(inputData)) =>
        /\ lastStep = "edit_ok"
        /\ dataType = "JSON"
        /\ parsedData.t = "arr"
        /\ SpecJson(inputData).val.t # "arr" => parsedData.items = <<SpecJson(inputData).val>>

\* the non-blank lines of the trimmed text
SpecLines(text) == SelectSeq(Split(Trim(text), NL), NonBlank)

\* candidate k of comma, tab, pipe, semicolon beats every other candidate in
\* the line: more occurrences, or as many and listed earlier
SpecBeatsAll(line, k) ==
    \A j \in 1..Len(delimiters) :
        \/ CountChar(line, delimiters[k]) > CountChar(line, delimiters[j])
        \/ CountChar(line, delimiters[k]) = CountChar(line, delimiters[j]) /\ k <= j

SpecWinner(line) == delimiters[CHOOSE k \in 1..Len(delimiters) : SpecBeatsAll(line, k)]

SpecNoDelimiter(line) == \A k \in 1..Len(delimiters) : CountChar(line, delimiters[k]) = 0

\* the text is not JSON and has at least 2 non-blank lines
SpecIsTable(text) == ~SpecIsJson(text) /\ Len(SpecLines(text)) >= 2

\* the edit ended in the Unrecognized failure
IsUnrecognized == lastStep = "edit_fail" /\ error = UnrecognizedMsg /\ parsedData = JNull

\* C16: for a text that is not JSON and has at least 2 non-blank lines, the
\* delimiter is the candidate with the most occurrences in the first non-blank
\* line, the earlier candidate on equal counts, and the outcome is
\* Unrecognized when no candidate occurs in that line.
C16_DelimiterByFirstLine ==
    (Edited /\ SpecIsTable(inputData)) =>
        LET line == SpecLines(inputData)[1]
        IN  /\ SpecNoDelimiter(line) => IsUnrecognized
            /\ lastStep = "edit_ok" => dataType = typeMap(SpecWinner(line))

\* a field without its quotes when it starts and ends with the same quote
\* character, the field itself otherwise
SpecUnquote(f) ==
    IF Len(f) >= 2 /\ IsQuoteChar(f[1]) /\ f[Len(f)] = f[1] THEN Sub(f, 2, Len(f) - 1) ELSE f

\* the fields of a line: split at the delimiter, trimmed, de-quoted
SpecFields(line, d) ==
    LET fs == Split(line, d) IN [i \in 1..Len(fs) |-> SpecUnquote(Trim(fs[i]))]

\* the header names of a line: its fields without the empty ones
SpecHeaders(line, d) == SelectSeq(SpecFields(line, d), NonEmpty)

\* the text is not JSON, has at least 2 non-blank lines and a delimiter in
\* the first of them
SpecHasDelimiter(text) == SpecIsTable(text) /\ ~SpecNoDelimiter(SpecLines(text)[1])

\* C17: header fields are trimmed and lose one layer of quotes only when they
\* start and end with the same quote character; empty names are dropped, and
\* fewer than 2 names give Unrecognized.  Data fields are de-quoted by the
\* same rule: every cell is a field of its line, or empty.
C17_MatchingQuotesOnly ==
    (Edited /\ SpecHasDelimiter(inputData)) =>
        LET lines == SpecLines(inputData)
            d == SpecWinner(lines[1])
            hs == SpecHeaders(lines[1], d)
        IN  /\ Len(hs) < 2 <=> IsUnrecognized
            /\ HasResult =>
                /\ Range(columns(parsedData.items)) = Range(hs)
                /\ \A r \in 1..Len(parsedData.items) :
                     \A i \in 1..Len(parsedData.items[r].props) :
                        parsedData.items[r].props[i].v
                            \in {JStr(f) : f \in Range(SpecFields(lines[r + 1], d)) \cup {<<>>}}

\* a text that is not blank and not JSON
SpecIsPlain(text) == Trim(text) # <<>> /\ ~SpecIsJson(text)

\* the text has fewer than 2 header fields: no delimiter in its first
\* non-blank line, or fewer than 2 names left in it
SpecFewHeaders(text) ==
    LET line == SpecLines(text)[1]
    IN  SpecNoDelimiter(line) \/ Len(SpecHeaders(line, SpecWinner(line))) < 2

\* C18: a text that is not JSON and has a single line, or fewer than 2 header
\* fields, always fails as Unrecognized.
C18_DegenerateIsUnrecognized ==
    (Edited /\ SpecIsPlain(inputData)) =>
        /\ Len(SpecLines(inputData)) < 2 => IsUnrecognized
        /\ SpecFewHeaders(inputData) => IsUnrecognized

\* the line has more commas than tabs, than pipes and than semicolons
SpecCommaLeads(line) ==
    \A k \in 2..Len(delimiters) : CountChar(line, ",") > CountChar(line, delimiters[k])

\* C19: a text that is not JSON, has at least 2 non-blank lines, more commas
\* than any other candidate in the first of them and at least 2 header names
\* in it is detected as comma-delimited: the label is CSV.
C19_CommaLeadsIsCsv ==
    (/\ Edited /\ SpecIsTable(inputData)
     /\ SpecCommaLeads(SpecLines(inputData)[1])
     /\ Len(SpecHeaders(SpecLines(inputData)[1], ",")) >= 2)
        => lastStep = "edit_ok" /\ dataType = "CSV" /\ error = ""

RECURSIVE SpecKeysFrom(_, _, _, _)
\* the keys of the objects of a JSON array of objects in the order the text
\* names them: the string literals at depth 2 that a colon follows
SpecKeysFrom(s, i, depth, acc) ==
    IF i > Len(s) THEN acc
    ELSE IF s[i] = QUOTE
         THEN LET str == ParseString(s, i)
                  c == SkipWs(s, str.next)
              IN  SpecKeysFrom(s, str.next, depth,
                               IF depth = 2 /\ c <= Len(s) /\ s[c] = ":"
                               THEN Append(acc, str.val.s) ELSE acc)
    ELSE IF s[i] \in {"[", "{"} THEN SpecKeysFrom(s, i + 1, depth + 1, acc)
    ELSE IF s[i] \in {"]", "}"} THEN SpecKeysFrom(s, i + 1, depth - 1, acc)
    ELSE SpecKeysFrom(s, i + 1, depth, acc)

RECURSIVE SpecFirstSeen(_)
\* a sequence without the repetitions of its earlier elements
SpecFirstSeen(keys) ==
    IF keys = <<>> THEN <<>>
    ELSE LET rest == SpecFirstSeen(Sub(keys, 1, Len(keys) - 1))
         IN  IF InSeq(keys[Len(keys)], rest) THEN rest ELSE Append(rest, keys[Len(keys)])

\* the union of the keys of all objects of the text, in first-seen order
SpecColumns(text) == SpecFirstSeen(SpecKeysFrom(Trim(text), 1, 0, <<>>))

\* the text is a JSON array whose elements are all objects
SpecIsObjects(text) ==
    /\ SpecIsJson(text)
    /\ SpecJson(text).val.t = "arr"
    /\ \A i \in 1..Len(SpecJson(text).val.items) : SpecJson(text).val.items[i].t = "obj"

\* the number of rows kept of n rows
SpecKept(n) == IF n < MAX_ROWS_DISPLAY THEN n ELSE MAX_ROWS_DISPLAY

\* C20: a valid JSON array of objects is classified as JSON, gives one record
\* per element (up to the row cap), and its columns are the union of the keys
\* of all objects in first-seen order, without duplicates.
C20_ObjectsArrayColumns ==
    (Edited /\ SpecIsObjects(inputData)
            /\ Len(SpecJson(inputData).val.items) <= MAX_ROWS_DISPLAY) =>
        /\ HasResult
        /\ dataType = "JSON"
        /\ Len(parsedData.items) = Len(SpecJson(inputData).val.items)
        /\ columns(parsedData.items) = SpecColumns(inputData)

(***************************************************************************)
(* Properties of truncation and of the rows.                               *)
(***************************************************************************)
\* the text matches a format: JSON, or delimited with 2 header names
SpecMatched(text) ==
    \/ SpecIsJson(text)
    \/ /\ SpecHasDelimiter(text)
       /\ Len(SpecHeaders(SpecLines(text)[1], SpecWinner(SpecLines(text)[1]))) >= 2

\* the rows of a JSON text: the elements of its array, or its one root
SpecElements(text) ==
    IF SpecJson(text).val.t = "arr" THEN SpecJson(text).val.items ELSE <<SpecJson(text).val>>

\* the number of rows of a text: JSON elements, or lines after the header
SpecRowCount(text) ==
    IF SpecIsJson(text) THEN Len(SpecElements(text)) ELSE Len(SpecLines(text)) - 1

\* record r of the result is row r of the text: the JSON element, or cells
\* that are fields of data line r
SpecIsRow(text, r, rec) ==
    IF SpecIsJson(text) THEN rec = SpecElements(text)[r]
    ELSE /\ rec.t = "obj"
         /\ \A i \in 1..Len(rec.props) :
              rec.props[i].v \in
                {JStr(f) : f \in Range(SpecFields(SpecLines(text)[r + 1],
                                                  SpecWinner(SpecLines(text)[1]))) \cup {<<>>}}

\* C21: when the text has more rows than the cap, JSON or delimited, the
\* result is exactly the first cap rows in their order, there is no error,
\* and the reported row count is the cap.
C21_TruncatesToCap ==
    (Edited /\ SpecMatched(inputData) /\ SpecRowCount(inputData) > MAX_ROWS_DISPLAY) =>
        /\ HasResult
        /\ error = ""
        /\ Len(parsedData.items) = MAX_ROWS_DISPLAY
        /\ \A r \in 1..Len(parsedData.items) : SpecIsRow(inputData, r, parsedData.items[r])
        /\ toast = "Successfully parsed " \o ToString(MAX_ROWS_DISPLAY) \o " rows as " \o dataType

\* C22: when a format is matched and no record remains, the outcome is a
\* failure: a parsed result never has zero rows, for JSON or delimited text.
C22_NoEmptyResult ==
    /\ (lastStep = "edit_ok" /\ parsedData.t = "arr") => Len(parsedData.items) > 0
    /\ (Edited /\ SpecMatched(inputData) /\ SpecRowCount(inputData) = 0) =>
            lastStep = "edit_fail" /\ error # "" /\ parsedData = JNull

\* the cell of header j in a data line: field j, or empty without field j
SpecCell(fields, j) == IF j <= Len(fields) THEN fields[j] ELSE <<>>

\* the record of a data line over the header names hs: one cell per name,
\* taken by position (of a name given twice, the last position counts)
SpecIsRecordOf(rec, hs, fields) ==
    /\ rec.t = "obj"
    /\ Range(ObjectKeys(rec)) = Range(hs)
    /\ \A j \in 1..Len(hs) :
          (\A m \in (j + 1)..Len(hs) : hs[m] # hs[j])
              => GetProp(rec.props, hs[j]) = JStr(SpecCell(fields, j))

\* C23: in delimited text every data line (up to the row cap) yields one
\* record over the header list; missing trailing fields are empty strings and
\* fields beyond the headers are dropped without error.
C23_RowsFollowHeaders ==
    (Edited /\ ~SpecIsJson(inputData) /\ SpecMatched(inputData)) =>
        LET lines == SpecLines(inputData)
            d == SpecWinner(lines[1])
            hs == SpecHeaders(lines[1], d)
        IN  /\ HasResult
            /\ error = ""
            /\ Len(parsedData.items) = SpecKept(Len(lines) - 1)
            /\ \A r \in 1..Len(parsedData.items) :
                  SpecIsRecordOf(parsedData.items[r], hs, SpecFields(lines[r + 1], d))

(***************************************************************************)
(* DataTable and exportCSV: the text of a cell.                            *)
(***************************************************************************)
\* the values JavaScript takes as false in row[column] || ''
Falsy(v) ==
    \/ v.t = "null"
    \/ v.t = "num" /\ v.n = 0
    \/ v.t = "str" /\ v.s = <<>>
    \/ v.t = "bool" /\ v.n = 0

\* row[column]: an own property of an object, an element of an array, a
\* character of a string; JNull stands for undefined, which is as false
PropertyOf(row, column) ==
    CASE row.t = "obj" -> GetProp(row.props, column)
      [] row.t = "arr" /\ InSeq(column, Indices(0, Len(row.items))) ->
            row.items[StrToNat(column) + 1]
      [] row.t = "str" /\ InSeq(column, Indices(0, Len(row.s))) ->
            JStr(<<row.s[StrToNat(column) + 1]>>)
      [] OTHER -> JNull

ObjectText == <<"[", "o", "b", "j", "e", "c", "t", " ", "O", "b", "j", "e", "c", "t", "]">>

RECURSIVE toString(_)
RECURSIVE JoinItems(_)
\* Array.prototype.join(','): null elements give the empty text
JoinItems(items) ==
    IF items = <<>> THEN <<>>
    ELSE (IF Head(items).t = "null" THEN <<>> ELSE toString(Head(items)))
         \o (IF Len(items) > 1 THEN <<",">> \o JoinItems(Tail(items)) ELSE <<>>)

\* value.toString() of a value that is not null
toString(v) ==
    CASE v.t = "num" -> NatToStr(v.n)
      [] v.t = "str" -> v.s
      [] v.t = "bool" -> IF v.n = 1 THEN <<"t", "r", "u", "e">> ELSE <<"f", "a", "l", "s", "e">>
      [] v.t = "arr" -> JoinItems(v.items)
      [] OTHER -> ObjectText

\* (row[column] || '').toString()
cellText(row, column) ==
    IF Falsy(PropertyOf(row, column)) THEN <<>> ELSE toString(PropertyOf(row, column))

(***************************************************************************)
(* Properties of the cells.                                                *)
(***************************************************************************)
\* the string form of a number, a string or a boolean
SpecString(v) ==
    CASE v.t = "num" -> NatToStr(v.n)
      [] v.t = "str" -> v.s
      [] v.t = "bool" -> IF v.n = 1 THEN <<"t", "r", "u", "e">> ELSE <<"f", "a", "l", "s", "e">>

SpecIsScalar(v) == v.t \in {"num", "str", "bool"}

\* C24: for JSON text, the cell of a record for a column is the string form
\* of the element's value when the element has the key and the value is a
\* scalar, and the empty string when the element omits the key.
C24_JsonCellIsStringForm ==
    (HasResult /\ SpecIsJson(inputData)) =>
        \A r \in 1..Len(parsedData.items) :
            LET el == SpecElements(inputData)[r]
            IN  el.t = "obj" =>
                  \A c \in 1..Len(columns(parsedData.items)) :
                     LET column == columns(parsedData.items)[c]
                         cell == cellText(parsedData.items[r], column)
                     IN  /\ ~HasProp(el.props, column) => cell = <<>>
                         /\ (HasProp(el.props, column) /\ SpecIsScalar(GetProp(el.props, column)))
                                => cell = SpecString(GetProp(el.props, column))

(***************************************************************************)
(* Properties of the round trip.                                           *)
(***************************************************************************)
RECURSIVE SpecJoin(_, _)
\* texts joined by the character d
SpecJoin(texts, d) ==
    IF texts = <<>> THEN <<>>
    ELSE IF Len(texts) = 1 THEN texts[1]
    ELSE texts[1] \o <<d>> \o SpecJoin(Tail(texts), d)

\* the delimiter of a label
SpecDelimiterOf(label) == CHOOSE d \in Range(delimiters) : typeMap(d) = label

\* the values of a record in the order of the columns
SpecValues(rec, cols) == [c \in 1..Len(cols) |-> GetProp(rec.props, cols[c]).s]

\* the canonical text of a delimited result: the columns joined by the
\* delimiter, then one line per record with its values joined by it
SpecSerialize(cols, rows, d) ==
    SpecJoin(<<SpecJoin(cols, d)>> \o [r \in 1..Len(rows) |-> SpecJoin(SpecValues(rows[r], cols), d)],
             NL)

\* no value of the rows holds the character d
SpecNoDelimiterInValues(cols, rows, d) ==
    \A r \in 1..Len(rows) : \A c \in 1..Len(cols) : d \notin Range(SpecValues(rows[r], cols)[c])

\* the result of parsing text is a delimited result with these columns and
\* this row content
SpecParsesTo(text, label, cols, rows) ==
    LET again == parseData(text)
    IN  /\ again.kind = "ok"
        /\ again.type = label
        /\ columns(again.data) = cols
        /\ Len(again.data) = Len(rows)
        /\ \A r \in 1..Len(rows) : SpecValues(again.data[r], cols) = SpecValues(rows[r], cols)

\* C25: parsing the canonical text of a delimited result whose values hold
\* no delimiter yields an equal result: same columns, same row content.
C25_RoundTrip ==
    (HasResult /\ dataType # "JSON") =>
        LET d == SpecDelimiterOf(dataType)
            cols == columns(parsedData.items)
        IN  SpecNoDelimiterInValues(cols, parsedData.items, d)
                => SpecParsesTo(SpecSerialize(cols, parsedData.items, d), dataType, cols,
                                parsedData.items)

(***************************************************************************)
(* Properties of arrays without objects.                                   *)
(***************************************************************************)
\* the text is a JSON array with elements, none of them an object
SpecIsNonObjects(text) ==
    /\ SpecIsJson(text)
    /\ SpecJson(text).val.t = "arr"
    /\ Len(SpecJson(text).val.items) > 0
    /\ \A i \in 1..Len(SpecJson(text).val.items) : SpecJson(text).val.items[i].t # "obj"

\* C26: for a JSON array whose elements are not objects (numbers, strings,
\* booleans, null, arrays), every element counts as having no keys and the
\* result has zero columns.
C26_NonObjectsHaveNoColumns ==
    (Edited /\ SpecIsNonObjects(inputData)) =>
        /\ ~crashed
        /\ lastStep = "edit_ok"
        /\ columns(parsedData.items) = <<>>

(***************************************************************************)
(* Properties of the response handling.                                    *)
(***************************************************************************)
\* the text without one fence marker at its start: the fence, the word
\* characters of a language tag after it, and the line break after these
SpecDropLeadingFence(t) ==
    IF Len(t) >= 3 /\ t[1] = FENCE /\ t[2] = FENCE /\ t[3] = FENCE
    THEN LET tag == CHOOSE n \in 0..(Len(t) - 3) :
                        /\ \A i \in 4..(3 + n) : IsWordChar(t[i])
                        /\ (3 + n = Len(t) \/ ~IsWordChar(t[4 + n]))
             brk == IF 3 + tag < Len(t) /\ t[4 + tag] = NL THEN 1 ELSE 0
         IN  Sub(t, 4 + tag + brk, Len(t))
    ELSE t

\* the text without one fence marker at its end, and the line break before it
SpecDropTrailingFence(t) ==
    LET n == Len(t)
    IN  IF n >= 3 /\ t[n] = FENCE /\ t[n - 1] = FENCE /\ t[n - 2] = FENCE
        THEN IF n >= 4 /\ t[n - 3] = NL THEN Sub(t, 1, n - 4) ELSE Sub(t, 1, n - 3)
        ELSE t

\* the corrected text of a reply
SpecCorrected(text) == Trim(SpecDropTrailingFence(SpecDropLeadingFence(Trim(text))))

\* the steps in which a repair call returned a corrected text
RepairReturned == {"repair_ok_parsed", "repair_ok_unparsed", "repair_ok_empty"}

\* the failure of an empty or missing candidate list
EmptyResponseMsg == "AI correction failed: No response from Gemini API"

\* C27: a successful response without candidates is the
\* EmptyResponse failure, and every other successful response is a Success
\* with the first candidate's text without one leading and one trailing fence.
C27_EveryOtherResponseSucceeds ==
    [][\A id \in CallIds : \A body \in OkBodies :
          (respOk[id] /\ BodyArrives(id, body)) =>
              IF body.kind = "nocandidates"
              THEN lastStep' = "repair_fail" /\ error' = EmptyResponseMsg
              ELSE lastStep' \in RepairReturned /\ inputData' = SpecCorrected(body.text)]_vars

\* What the response handling does for each kind of successful response:
\* without candidates, the EmptyResponse failure; with a text in the first
\* candidate, a Success with that text without one leading and one trailing
\* fence; with a body that is not JSON or a first candidate without text, a
\* failure of another message.
C27_ResponseHandling ==
    [][\A id \in CallIds : \A body \in OkBodies :
          (respOk[id] /\ BodyArrives(id, body)) =>
              CASE body.kind = "nocandidates" ->
                      lastStep' = "repair_fail" /\ error' = EmptyResponseMsg
                        /\ UNCHANGED inputData
                [] body.kind = "text" ->
                      lastStep' \in RepairReturned /\ inputData' = SpecCorrected(body.text)
                [] OTHER ->
                      lastStep' = "repair_fail" /\ error' \in RepairFailureTexts
                        /\ error' # EmptyResponseMsg /\ UNCHANGED inputData]_vars

(***************************************************************************)
(* exportCSV: the text of the exported file.                               *)
(***************************************************************************)
RECURSIVE join(_, _)
\* texts.join(sep)
join(texts, sep) ==
    IF texts = <<>> THEN <<>>
    ELSE IF Len(texts) = 1 THEN Head(texts)
    ELSE Head(texts) \o sep \o join(Tail(texts), sep)

RECURSIVE DoubleQuotes(_)
\* value.replace(/"/g, '""')
DoubleQuotes(value) ==
    IF value = <<>> THEN <<>>
    ELSE (IF Head(value) = QUOTE THEN <<QUOTE, QUOTE>> ELSE <<Head(value)>>)
         \o DoubleQuotes(Tail(value))

\* the cell of the file: the value with its quotes doubled, in quotes
exportCell(row, col) == <<QUOTE>> \o DoubleQuotes(cellText(row, col)) \o <<QUOTE>>

\* the csv text exportCSV builds for a parsedData with rows
exportCSV(rows) ==
    LET cols == columns(rows)
    IN  join(<<join(cols, <<",">>)>>
             \o [r \in 1..Len(rows) |->
                    join([c \in 1..Len(cols) |-> exportCell(rows[r], cols[c])], <<",">>)],
             <<NL>>)

(***************************************************************************)
(* Properties of the export.                                               *)
(***************************************************************************)
RECURSIVE SpecDoubled(_)
\* a field with every double quote in it written twice
SpecDoubled(field) ==
    IF field = <<>> THEN <<>>
    ELSE SpecDoubled(Sub(field, 1, Len(field) - 1))
         \o (IF field[Len(field)] = QUOTE THEN <<QUOTE, QUOTE>> ELSE <<field[Len(field)]>>)

\* a field in quotes
SpecQuoted(field) == <<QUOTE>> \o SpecDoubled(field) \o <<QUOTE>>

\* C28: the exported text holds the columns and then the rows in their
\* order, every field of it (header names and cells) in quotes with its
\* double quotes doubled.
C28_ExportQuotesEveryField ==
    (HasResult /\ Len(parsedData.items) > 0) =>
        LET cols == columns(parsedData.items)
            rows == parsedData.items
        IN  exportCSV(rows) =
              SpecJoin(<<SpecJoin([c \in 1..Len(cols) |-> SpecQuoted(cols[c])], ",")>>
                       \o [r \in 1..Len(rows) |->
                              SpecJoin([c \in 1..Len(cols) |-> SpecQuoted(cellText(rows[r], cols[c]))],
                                       ",")],
                       NL)

(***************************************************************************)
(* Properties of edits during a repair call.                               *)
(***************************************************************************)
\* the steps that complete a repair call
RepairCompleted == RepairReturned \cup {"repair_fail", "repair_timeout"}

\* A call is pending and the last handler was an edit that parsed or emptied
\* the text.  The button that starts a call is shown only with an error
\* text, which such an edit clears: the edit was made during the call.
EditedDuringCall == isProcessing /\ lastStep \in {"edit_ok", "edit_empty"}

\* C29: when the text was edited while a repair call was pending, the
\* completion of the call, succeeding or failing, changes neither the input
\* text nor the parse outcome nor the error text of the edit.
C29_CompletionKeepsNewerEdit ==
    [][(EditedDuringCall /\ lastStep' \in RepairCompleted)
          => UNCHANGED <<inputData, parsedData, dataType, error>>]_vars

\* a call starts only over an error text, in a step that is not an edit:
\* with a call pending, a last step "edit_ok" or "edit_empty" came after it
CallStartsFromFailure ==
    [][(~isProcessing /\ isProcessing')
          => (error # "" /\ UNCHANGED hist /\ lastStep \notin {"edit_ok", "edit_empty"})]_vars

(***************************************************************************)
(* Properties of the outcome states.                                       *)
(***************************************************************************)
\* C30: in every reachable state, an error text is never present together
\* with a stored parsed result or a format label.
C30_ParsedExcludesFailed == ~(error # "" /\ (parsedData # JNull \/ dataType # ""))

\* C31: in every reachable state whose input text is empty or blank and in
\* which no repair is pending, there is no error text and no parsed result.
C31_BlankInputIsIdle ==
    (Trim(inputData) = <<>> /\ ~isProcessing) => (error = "" /\ parsedData = JNull)

\* the positions of a name among the fields of the header line
SpecPositions(name, fields) == {p \in 1..Len(fields) : fields[p] = name}

\* C32: in a delimited result the value of a record for a column is the
\* trimmed, de-quoted field at the position in the data line at which the
\* column's name stands in the header line (for a name that repeats, at one
\* of its positions), also when empty names of the header line are dropped.
C32_CellsFollowHeaderPositions ==
    (HasResult /\ ~SpecIsJson(inputData) /\ SpecMatched(inputData)) =>
        LET lines == SpecLines(inputData)
            d == SpecWinner(lines[1])
            names == SpecFields(lines[1], d)
        IN  \A r \in 1..Len(parsedData.items) :
              \A c \in 1..Len(columns(parsedData.items)) :
                 LET column == columns(parsedData.items)[c]
                 IN  \E p \in SpecPositions(column, names) :
                        cellText(parsedData.items[r], column)
                            = SpecCell(SpecFields(lines[r + 1], d), p)

(***************************************************************************)
(* data-table-viewer.html: parseData of the second implementation.         *)
(***************************************************************************)
\* the delimited branch, on data.trim(): the header names are not filtered
\* and the rows are not capped
parseDelimitedHtml(text) ==
    LET lines == SelectSeq(Split(text, NL), NonBlank)
    IN  IF Len(lines) > 1
        THEN LET sn == Sniff(lines[1])
                 d == sn.bestDelimiter
             IN  IF sn.maxCount > 0
                 THEN LET hs == Split(lines[1], d)
                          headers == [i \in 1..Len(hs) |-> CleanField(hs[i])]
                          rows == [r \in 1..(Len(lines) - 1) |-> RowOf(headers, lines[r + 1], d)]
                      IN  IF Len(rows) > 0 /\ Len(headers) > 1
                          THEN POk(rows, typeMap(d)) ELSE PThrow
                 ELSE PThrow
        ELSE PThrow

\* parseData(data) of data-table-viewer.html: JSON.parse on the text as it
\* is, no sanitizing
parseDataHtml(data) ==
    IF Trim(data) = <<>> THEN PNull
    ELSE Eval(JSONParse(data), LAMBDA js :
            IF js.ok
            THEN POk(IF js.val.t = "arr" THEN js.val.items ELSE <<js.val>>, "JSON")
            ELSE parseDelimitedHtml(Trim(data)))

(***************************************************************************)
(* Properties of the two implementations.                                  *)
(***************************************************************************)
\* C33: for every text with at most the cap of data rows, the two
\* implementations of parseData give the same outcome: both Unrecognized, or
\* both the same label with the same columns and records.
C33_ImplementationsAgree ==
    (Edited /\ SpecRowCount(inputData) <= MAX_ROWS_DISPLAY) =>
        Eval(parseDataHtml(inputData), LAMBDA h :
            /\ h.kind = "null" <=> lastStep = "edit_empty"
            /\ h.kind = "throw" <=> lastStep = "edit_fail"
            /\ h.kind = "ok" <=> lastStep = "edit_ok"
            /\ h.kind = "ok" => (dataType = h.type /\ parsedData = JArr(h.data)))

(***************************************************************************)
(* Properties of the display filename.                                     *)
(***************************************************************************)
\* C34: after a file is loaded through handleFileLoad the display filename
\* is the loaded file's name, and it changes afterwards only in a manual
\* edit of the text, which clears it.
C34_FileNameFollowsLoad ==
    [][/\ \A content \in FileTexts, filename \in FileNames :
             handleFileLoad(content, filename) => fileName' = filename
       /\ (fileName # "" /\ fileName' # fileName) =>
             (fileName' = "" /\ \E value \in EditTexts : handleDataChange(value))]_vars

\* the display filename is empty in every state
FileNameIsEmpty == fileName = ""

====
